---- MODULE Spec2Model ----
(***************************************************************************)
(* mini-tcp: the server side of the TCP three-way handshake on raw IP      *)
(* datagrams read from a tun device.  The model follows src/src/main.rs    *)
(* (the dispatch loop and the connection table), src/src/tcp/handshake.rs  *)
(* (syn_ack, check_ack), src/src/tcp/mod.rs (the sequence-space            *)
(* arithmetic) and src/src/tcp/state.rs (the state records).               *)
(*                                                                         *)
(* A u32 is the pair <<hi, lo>> of its 16-bit halves, so that the full     *)
(* 32-bit width, its order and its wrap-around are the program's.          *)
(***************************************************************************)
EXTENDS Integers, Sequences, FiniteSets, TLC

\* ------------------------------------------------------------------ bounds

\* Sequence and acknowledgment numbers are drawn within Edge of the wrap
\* point 0 = 2^32 (and, for the pure functions, of 2^31).
Edge == 1

\* ------------------------------------------------------------ u32 and u16

Half == 2 ^ 16

u32(hi, lo) == <<hi, lo>>

\* `n as u32` for a value that fits 16 bits
as_u32(n) == u32(0, n)

\* a < b on u32
lt(a, b) == a[1] < b[1] \/ (a[1] = b[1] /\ a[2] < b[2])

\* a <= b on u32
le(a, b) == a = b \/ lt(a, b)

\* u32::wrapping_add
wrapping_add(a, b) ==
    LET lo == a[2] + b[2]
    IN  u32((a[1] + b[1] + (lo \div Half)) % Half, lo % Half)

\* u32::wrapping_sub
wrapping_sub(a, b) ==
    LET borrow == IF a[2] < b[2] THEN 1 ELSE 0
    IN  u32((a[1] - b[1] - borrow + 2 * Half) % Half, (a[2] - b[2] + Half) % Half)

U32_ZERO == u32(0, 0)
U32_ONE  == u32(0, 1)
U32_MAX  == u32(Half - 1, Half - 1)

\* ------------------------------------------------------------- constants

TCP_PROTOCOL == 6
DEFAULT_WINDOW_SIZE == 64240
\* the TTL of the reply's IPv4 header
REPLY_TTL == 64
\* an IP protocol number that is not TCP (UDP)
OTHER_PROTOCOL == 17


\* ------------------------------------------- sequence-space arithmetic

\* Option<T>: None is <<>>, Some(v) is <<v>>; a payload &[u8] is given by its len()
None == <<>>
Some(v) == <<v>>
unwrap(o) == o[1]

\* is_wrapping_lte_ls with a < b where the code has a <= b
is_wrapping_lte_ls_strict(a, b, c) ==
    IF lt(a, b) /\ lt(b, c) THEN TRUE
    ELSE IF lt(c, a) /\ lt(a, b) THEN TRUE
    ELSE IF lt(b, c) /\ lt(c, a) THEN TRUE
    ELSE FALSE

\* is_wrapping_lte_ls without its case 3
is_wrapping_lte_ls_no_case3(a, b, c) ==
    IF le(a, b) /\ lt(b, c) THEN TRUE
    ELSE IF lt(c, a) /\ le(a, b) THEN TRUE
    ELSE FALSE

\* Checks if the three numbers a, b, c are: a <= b < c with wrapping
is_wrapping_lte_ls(a, b, c) ==
    IF le(a, b) /\ lt(b, c) THEN TRUE          \* case 1: a, b, c
    ELSE IF lt(c, a) /\ le(a, b) THEN TRUE     \* case 2: c, a, b
    ELSE IF lt(b, c) /\ lt(c, a) THEN TRUE     \* case 3: b, c, a
    ELSE FALSE

\* Checks the ack number is within the send window
is_ack_in_window(snd, ack) ==
    IF lt(snd.una, ack) /\ le(ack, snd.nxt) THEN TRUE              \* case 1
    ELSE IF lt(snd.nxt, snd.una) /\ lt(snd.una, ack) THEN TRUE     \* case 2
    ELSE IF le(ack, snd.una) /\ lt(snd.nxt, snd.una) THEN TRUE     \* case 3
    ELSE FALSE

\* Checks the receiving data: seg is the TCP header, data the payload
is_recv_data_in_window(rcv, seg, data) ==
    IF data = None /\ rcv.wnd = 0 /\ seg.sequence_number = rcv.nxt THEN TRUE
    ELSE IF data # None /\ rcv.wnd = 0 THEN FALSE
    ELSE
      LET wnd_edge == wrapping_add(rcv.nxt, as_u32(rcv.wnd))
      IN  IF is_wrapping_lte_ls(rcv.nxt, seg.sequence_number, wnd_edge) THEN TRUE
          ELSE IF data # None /\ rcv.wnd > 0 THEN
            LET seg_len == (IF data = None THEN 0 ELSE unwrap(data))
                           + (IF seg.syn THEN 1 ELSE 0)
                           + (IF seg.fin THEN 1 ELSE 0)
                seg_last_seq ==
                    wrapping_sub(wrapping_add(seg.sequence_number, as_u32(seg_len)),
                                 U32_ONE)
            IN  is_wrapping_lte_ls(rcv.nxt, seg_last_seq, wnd_edge)
          ELSE FALSE

\* ------------------------------------------------------------ data model

\* ConnectionID {src_addr, src_port, dst_addr, dst_port}
ConnectionID(sa, sp, da, dp) ==
    [src_addr |-> sa, src_port |-> sp, dst_addr |-> da, dst_port |-> dp]

\* The identities of two peers of the same listening port
Peer  == ConnectionID("1.2.3.4", 1111, "5.6.7.8", 80)
Other == ConnectionID("9.9.9.9", 2222, "5.6.7.8", 80)
Ids == { Peer, Other }

\* Sequence numbers around the wrap point: 2^32-Edge .. 2^32-1, 0 .. Edge
SeqVals == { wrapping_sub(U32_ZERO, as_u32(k)) : k \in 1..Edge }
           \cup { as_u32(k) : k \in 0..Edge }

\* Acknowledgment numbers 0 .. Edge+1
AckVals == { as_u32(k) : k \in 0..(Edge + 1) }

\* Advertised windows (u16)
WndVals == { 0, 500 }

\* TcpHeaderSlice: the fields the program reads
TcpHeaderSlice(syn, ack, fin, seq, ackn, wnd) ==
    [ syn |-> syn, ack |-> ack, fin |-> fin,
      sequence_number |-> seq, acknowledgment_number |-> ackn,
      window_size |-> wnd ]

\* The headers Peer sends: every combination of SYN and ACK; without ACK the
\* acknowledgment field is 0 and every window is tried, with ACK every
\* acknowledgment number is tried; FIN comes with one segment of each kind
PeerHeaders ==
    { TcpHeaderSlice(syn, FALSE, FALSE, seq, U32_ZERO, wnd) :
        syn \in BOOLEAN, seq \in SeqVals, wnd \in WndVals }
    \cup { TcpHeaderSlice(syn, TRUE, FALSE, seq, ackn, 500) :
        syn \in BOOLEAN, seq \in SeqVals, ackn \in AckVals }
    \cup { TcpHeaderSlice(FALSE, ack, TRUE, U32_ZERO, U32_ONE, 500) : ack \in BOOLEAN }

\* The headers Other sends: the handshake of the example (SEQ=100, window 500),
\* its ACK, and an ACK that acknowledges nothing
OtherHeaders ==
    { TcpHeaderSlice(TRUE, FALSE, FALSE, as_u32(100), U32_ZERO, 500),
      TcpHeaderSlice(FALSE, TRUE, FALSE, as_u32(101), U32_ONE, 500),
      TcpHeaderSlice(FALSE, TRUE, FALSE, as_u32(101), U32_ZERO, 500) }

FillerTcp == TcpHeaderSlice(FALSE, FALSE, FALSE, U32_ZERO, U32_ZERO, 0)

\* A frame read from the interface: what the codec makes of its bytes
Frame(ipv4_ok, protocol, tcp_ok, id, tcp) ==
    [ ipv4_ok |-> ipv4_ok, protocol |-> protocol, tcp_ok |-> tcp_ok,
      id |-> id, tcp |-> tcp ]

GoodFrames == { Frame(TRUE, TCP_PROTOCOL, TRUE, Peer, h) : h \in PeerHeaders }
              \cup { Frame(TRUE, TCP_PROTOCOL, TRUE, Other, h) : h \in OtherHeaders }

BadFrames == { Frame(FALSE, TCP_PROTOCOL, TRUE, Peer, FillerTcp),
               Frame(TRUE, OTHER_PROTOCOL, TRUE, Peer, FillerTcp),
               Frame(TRUE, TCP_PROTOCOL, FALSE, Peer, FillerTcp) }

Frames == GoodFrames \cup BadFrames

\* Result<T>
Ok(v)  == [ ok |-> TRUE, value |-> v ]
Err(e) == [ ok |-> FALSE, error |-> e ]

\* parse_connection_id without the test of the IP protocol
parse_connection_id_any_protocol(data) ==
    IF ~data.ipv4_ok THEN Err("invalid ipv4 header")
    ELSE IF ~data.tcp_ok THEN Err("invalid tcp header")
    ELSE Ok([ id |-> data.id,
              ip_header |-> [ source_addr |-> data.id.src_addr,
                              destination_addr |-> data.id.dst_addr,
                              protocol |-> data.protocol ],
              tcp_header |-> data.tcp ])

\* parse_connection_id: the identity and the header views, or an error
parse_connection_id(data) ==
    IF ~data.ipv4_ok THEN Err("invalid ipv4 header")
    ELSE IF data.protocol # TCP_PROTOCOL THEN Err("not tcp protocol, skip")
    ELSE IF ~data.tcp_ok THEN Err("invalid tcp header")
    ELSE Ok([ id |-> data.id,
              ip_header |-> [ source_addr |-> data.id.src_addr,
                              destination_addr |-> data.id.dst_addr,
                              protocol |-> data.protocol ],
              tcp_header |-> data.tcp ])

\* Connection<T> { id, state }
Connection(id, state) == [ id |-> id, state |-> state ]

\* ConnectionWrapper that always builds the Established variant
ConnectionWrapper_established(tag, conn) == [ tag |-> "Established", conn |-> conn ]

\* ConnectionWrapper::SynRecv / ConnectionWrapper::Established
SynRecvTag == "SynRecv"
EstablishedTag == "Established"
ConnectionWrapper(tag, conn) == [ tag |-> tag, conn |-> conn ]


\* ----------------------------------------------------------- handshake

\* Listen { ip_header, tcp_header }
Listen(ip_header, tcp_header) == [ ip_header |-> ip_header, tcp_header |-> tcp_header ]

\* Connection<Listen>::new
Connection_new(id, ip_header, tcp_header) == Connection(id, Listen(ip_header, tcp_header))

\* next_state with RCV.NXT set to SEG.SEQ, not SEG.SEQ+1
next_state_no_incr(self, iss, wnd) ==
    [ snd |-> [ una |-> iss,
                nxt |-> wrapping_add(iss, U32_ONE),
                wnd |-> wnd,
                up  |-> FALSE,
                wl1 |-> U32_ZERO,
                wl2 |-> U32_ZERO,
                iss |-> iss ],
      rcv |-> [ nxt |-> self.state.tcp_header.sequence_number,
                wnd |-> self.state.tcp_header.window_size,
                up  |-> FALSE,
                irs |-> self.state.tcp_header.sequence_number ] ]

\* Connection<Listen>::next_state: the SynRecv record
next_state(self, iss, wnd) ==
    [ snd |-> [ una |-> iss,
                nxt |-> wrapping_add(iss, U32_ONE),
                wnd |-> wnd,
                up  |-> FALSE,
                wl1 |-> U32_ZERO,
                wl2 |-> U32_ZERO,
                iss |-> iss ],
      rcv |-> [ nxt |-> wrapping_add(self.state.tcp_header.sequence_number, U32_ONE),
                wnd |-> self.state.tcp_header.window_size,
                up  |-> FALSE,
                irs |-> self.state.tcp_header.sequence_number ] ]

\* preflight_checks without the SYN test
preflight_checks_no_syn(self) ==
    IF self.state.tcp_header.ack THEN Err("ack should not be set, invalid payload")
    ELSE Ok(<<>>)

\* Connection<Listen>::preflight_checks
preflight_checks(self) ==
    IF self.state.tcp_header.ack THEN Err("ack should not be set, invalid payload")
    ELSE IF ~self.state.tcp_header.syn THEN Err("syn should be set, invalid payload")
    ELSE Ok(<<>>)

\* TcpHeader::calc_checksum_ipv4 with no payload: the sum over the pseudo-header
\* does not depend on which address is the source
calc_checksum_ipv4(tcp, ip_header) ==
    [ addrs |-> { ip_header.source_addr, ip_header.destination_addr },
      ports |-> { tcp.source_port, tcp.destination_port },
      sequence_number |-> tcp.sequence_number,
      acknowledgment_number |-> tcp.acknowledgment_number ]

\* TcpHeader::new(source_port, destination_port, sequence_number, window_size)
TcpHeader_new(source_port, destination_port, sequence_number, window_size) ==
    [ source_port |-> source_port, destination_port |-> destination_port,
      sequence_number |-> sequence_number, acknowledgment_number |-> U32_ZERO,
      syn |-> FALSE, ack |-> FALSE, fin |-> FALSE,
      window_size |-> window_size, checksum |-> <<>> ]

\* Ipv4Header::new(payload_len, time_to_live, protocol, source, destination);
\* the payload length is the reply header's own length
Ipv4Header_new(time_to_live, protocol, source, destination) ==
    [ time_to_live |-> time_to_live, protocol |-> protocol,
      source |-> source, destination |-> destination ]

\* an ISS of 1
initial_seq_num_one == u32(0, 1)

\* The ISS that syn_ack picks
initial_seq_num == U32_ZERO

\* The reply of syn_ack: <SEQ=ISS><ACK=RCV.NXT><CTL=SYN,ACK>
reply_tcp_header(self, rcv_nxt) ==
    LET h == [ TcpHeader_new(self.id.dst_port, self.id.src_port,
                             initial_seq_num, DEFAULT_WINDOW_SIZE)
               EXCEPT !.acknowledgment_number = rcv_nxt, !.syn = TRUE, !.ack = TRUE ]
    IN  [ h EXCEPT !.checksum = Some(calc_checksum_ipv4(h, self.state.ip_header)) ]

\* reply_ip_header with the addresses of the inbound segment, not swapped
reply_ip_header_unswapped(self) ==
    Ipv4Header_new(REPLY_TTL, TCP_PROTOCOL, self.id.src_addr, self.id.dst_addr)

\* The IPv4 header of the reply: from the inbound destination to its source
reply_ip_header(self) ==
    Ipv4Header_new(REPLY_TTL, TCP_PROTOCOL, self.id.dst_addr, self.id.src_addr)

\* syn_ack that drops the result of nic.send
syn_ack_ignores_send_error(self, nic_ok) ==
    IF ~preflight_checks(self).ok
    THEN [ result |-> preflight_checks(self), written |-> <<>> ]
    ELSE
      LET next     == next_state(self, initial_seq_num, DEFAULT_WINDOW_SIZE)
          response == [ ip |-> reply_ip_header(self),
                        tcp |-> reply_tcp_header(self, next.rcv.nxt) ]
      IN  [ result |-> Ok(Connection(self.id, next)),
            written |-> IF nic_ok THEN <<response>> ELSE <<>> ]

\* Connection<Listen>::syn_ack; nic_ok is whether nic.send succeeds.
\* result: the Result it returns; written: what it wrote to the interface
syn_ack(self, nic_ok) ==
    IF ~preflight_checks(self).ok
    THEN [ result |-> preflight_checks(self), written |-> <<>> ]
    ELSE
      LET next     == next_state(self, initial_seq_num, DEFAULT_WINDOW_SIZE)
          response == [ ip |-> reply_ip_header(self),
                        tcp |-> reply_tcp_header(self, next.rcv.nxt) ]
      IN  IF ~nic_ok
          THEN [ result |-> Err("nic.send failed"), written |-> <<>> ]
          ELSE [ result |-> Ok(Connection(self.id, next)), written |-> <<response>> ]

\* transmute into a record that lays out nxt before una
transmute_reordered(state) ==
    [ snd |-> [ state.snd EXCEPT !.una = state.snd.nxt, !.nxt = state.snd.una ],
      rcv |-> state.rcv ]

\* transmute into a record whose iss is read where nxt lies
transmute_iss_from_nxt(state) ==
    [ snd |-> [ state.snd EXCEPT !.iss = state.snd.nxt ], rcv |-> state.rcv ]

\* std::mem::transmute::<SynRecv, Established>: both are #[repr(C)] with the
\* same fields in the same order
transmute(state) == [ snd |-> state.snd, rcv |-> state.rcv ]

\* check_ack without the test of the acknowledgment number
check_ack_no_ack_window(self, tcp_header) ==
    IF ~tcp_header.ack THEN Err("no ack received")
    ELSE IF ~is_recv_data_in_window(self.state.rcv, tcp_header, None)
         THEN Err("not valid ack for syn recv")
    ELSE Ok(Connection(self.id, transmute(self.state)))

\* Connection<SynRecv>::check_ack
check_ack(self, tcp_header) ==
    IF ~tcp_header.ack THEN Err("no ack received")
    ELSE IF ~is_ack_in_window(self.state.snd, tcp_header.acknowledgment_number)
         THEN Err("not valid ack for syn recv")
    ELSE IF ~is_recv_data_in_window(self.state.rcv, tcp_header, None)
         THEN Err("not valid ack for syn recv")
    ELSE Ok(Connection(self.id, transmute(self.state)))


\* --------------------------------------------------------- dispatch loop

VARIABLES
    connections,  \* main's HashMap<ConnectionID, ConnectionWrapper>
    nic,          \* the segments the latest iteration wrote to the interface
    running,      \* TRUE while main is in its loop, FALSE once it has returned
    last,         \* the latest iteration: the frame read (seg), the entry found
                  \* for its identity (pre) and how the iteration ended (outcome)
    call,         \* the pure function under evaluation: its arguments and result
    effects       \* what the latest iteration did to the table and the interface,
                  \* in program order: "entry", "remove", "insert", "send"

vars == <<connections, nic, running, last, call, effects>>

NoCall == [ fn |-> "none" ]

\* remove that empties the map
remove_clears(map, id) == [ k \in {} |-> map[k] ]

\* HashMap::remove
remove(map, id) == [ k \in DOMAIN map \ {id} |-> map[k] ]

\* HashMap::insert / VacantEntry::insert
insert(map, id, v) == [ k \in DOMAIN map \cup {id} |-> IF k = id THEN v ELSE map[k] ]

Iteration(seg, pre, outcome) == [ seg |-> seg, pre |-> pre, outcome |-> outcome ]

\* Entry::Vacant: connections.entry, then what syn_ack wrote, then e.insert
\* when syn_ack returned Ok
vacant_effects(r) ==
    <<"entry">> \o [ i \in 1..Len(r.written) |-> "send" ]
                \o (IF r.result.ok THEN <<"insert">> ELSE << >>)

Init ==
    /\ connections = << >>
    /\ nic = << >>
    /\ effects = << >>
    /\ running = TRUE
    /\ last = Iteration(None, None, "start")
    /\ call = NoCall

\* nic.recv fails: main returns the error
RecvFail ==
    /\ running
    /\ running' = FALSE
    /\ last' = Iteration(None, None, "recv_err")
    /\ nic' = << >>
    /\ effects' = << >>
    /\ UNCHANGED <<connections, call>>

\* parse_connection_id fails: the frame is skipped
ParseSkip ==
    /\ running
    /\ \E buf \in Frames :
         /\ ~parse_connection_id(buf).ok
         /\ last' = Iteration(Some(buf), None, "parse_err")
    /\ nic' = << >>
    /\ effects' = << >>
    /\ UNCHANGED <<connections, running, call>>

\* Entry::Vacant, syn_ack returns Ok: the SynRecv connection is inserted
VacantInsert ==
    /\ running
    /\ \E buf \in Frames, nic_ok \in BOOLEAN :
         LET parsed == parse_connection_id(buf) IN
         /\ parsed.ok
         /\ parsed.value.id \notin DOMAIN connections
         /\ LET id == parsed.value.id
                handshake == Connection_new(id, parsed.value.ip_header,
                                            parsed.value.tcp_header)
                r == syn_ack(handshake, nic_ok)
            IN  /\ r.result.ok
                /\ nic' = r.written
                /\ effects' = vacant_effects(r)
                /\ connections' =
                     insert(connections, id, ConnectionWrapper(SynRecvTag, r.result.value))
                /\ last' = Iteration(Some(buf), None, "syn_ack_ok")
    /\ UNCHANGED <<running, call>>

\* Entry::Vacant, syn_ack returns Err: `?` makes main return the error
VacantExit ==
    /\ running
    /\ \E buf \in Frames, nic_ok \in BOOLEAN :
         LET parsed == parse_connection_id(buf) IN
         /\ parsed.ok
         /\ parsed.value.id \notin DOMAIN connections
         /\ LET id == parsed.value.id
                handshake == Connection_new(id, parsed.value.ip_header,
                                            parsed.value.tcp_header)
                r == syn_ack(handshake, nic_ok)
            IN  /\ ~r.result.ok
                /\ nic' = r.written
                /\ effects' = vacant_effects(r)
                /\ last' = Iteration(Some(buf), None,
                                     IF preflight_checks(handshake).ok
                                     THEN "send_err" ELSE "preflight_err")
    /\ running' = FALSE
    /\ UNCHANGED <<connections, call>>

\* Entry::Occupied with a SynRecv connection, check_ack returns Ok:
\* the entry is removed and the Established connection inserted
OccupiedEstablish ==
    /\ running
    /\ \E buf \in Frames :
         LET parsed == parse_connection_id(buf) IN
         /\ parsed.ok
         /\ parsed.value.id \in DOMAIN connections
         /\ LET id == parsed.value.id
                e  == connections[id]
                r  == check_ack(e.conn, parsed.value.tcp_header)
            IN  /\ e.tag = SynRecvTag
                /\ r.ok
                /\ connections' =
                     insert(remove(connections, id), id,
                            ConnectionWrapper(EstablishedTag, r.value))
                /\ last' = Iteration(Some(buf), Some(e), "check_ack_ok")
    /\ nic' = << >>
    /\ effects' = <<"entry", "remove", "insert">>
    /\ UNCHANGED <<running, call>>

\* Entry::Occupied with a SynRecv connection, check_ack returns Err:
\* the entry is removed, the error logged
OccupiedReject ==
    /\ running
    /\ \E buf \in Frames :
         LET parsed == parse_connection_id(buf) IN
         /\ parsed.ok
         /\ parsed.value.id \in DOMAIN connections
         /\ LET id == parsed.value.id
                e  == connections[id]
                r  == check_ack(e.conn, parsed.value.tcp_header)
            IN  /\ e.tag = SynRecvTag
                /\ ~r.ok
                /\ connections' = remove(connections, id)
                /\ last' = Iteration(Some(buf), Some(e), "check_ack_err")
    /\ nic' = << >>
    /\ effects' = <<"entry", "remove">>
    /\ UNCHANGED <<running, call>>

\* Entry::Occupied with any other connection: the entry is removed,
\* "invalid state" logged
OccupiedInvalid ==
    /\ running
    /\ \E buf \in Frames :
         LET parsed == parse_connection_id(buf) IN
         /\ parsed.ok
         /\ parsed.value.id \in DOMAIN connections
         /\ LET id == parsed.value.id
                e  == connections[id]
            IN  /\ e.tag # SynRecvTag
                /\ connections' = remove(connections, id)
                /\ last' = Iteration(Some(buf), Some(e), "invalid_state")
    /\ nic' = << >>
    /\ effects' = <<"entry", "remove">>
    /\ UNCHANGED <<running, call>>

Next ==
    \/ RecvFail
    \/ ParseSkip
    \/ VacantInsert
    \/ VacantExit
    \/ OccupiedEstablish
    \/ OccupiedReject
    \/ OccupiedInvalid

Spec == Init /\ [][Next]_vars


\* -------------------------------------------- is_ack_in_window, evaluated

\* u32 values around 0 = 2^32 and around 2^31
Samples ==
    { wrapping_sub(U32_ZERO, as_u32(k)) : k \in 1..Edge }
    \cup { as_u32(k) : k \in 0..Edge }
    \cup { wrapping_sub(u32(Half \div 2, 0), as_u32(k)) : k \in 1..Edge }
    \cup { wrapping_add(u32(Half \div 2, 0), as_u32(k)) : k \in 0..Edge }

\* A SendSequenceSpace with the given una and nxt
SendSequenceSpace(una, nxt) ==
    [ una |-> una, nxt |-> nxt, wnd |-> DEFAULT_WINDOW_SIZE, up |-> FALSE,
      wl1 |-> U32_ZERO, wl2 |-> U32_ZERO, iss |-> una ]

InitAck ==
    /\ connections = << >>
    /\ nic = << >>
    /\ effects = << >>
    /\ running = TRUE
    /\ last = Iteration(None, None, "start")
    /\ call \in { [ fn |-> "is_ack_in_window", snd |-> SendSequenceSpace(una, nxt),
                    ack |-> ack, ret |-> None ] :
                  una \in Samples, nxt \in Samples, ack \in Samples }

\* The call returns
EvalAck ==
    /\ call.fn = "is_ack_in_window"
    /\ call.ret = None
    /\ call' = [ call EXCEPT !.ret = Some(is_ack_in_window(call.snd, call.ack)) ]
    /\ UNCHANGED <<connections, nic, running, last, effects>>

SpecAck == InitAck /\ [][EvalAck]_vars

\* ------------------------------------------------------------ the claims

\* x + 1 modulo 2^32, by cases on the halves
Succ32(x) ==
    IF x = U32_MAX THEN U32_ZERO
    ELSE IF x[2] = Half - 1 THEN u32(x[1] + 1, 0)
    ELSE u32(x[1], x[2] + 1)

\* The frame of the latest iteration and its identity
LastFrame == unwrap(last.seg)
LastId == unwrap(last.seg).id

\* C1: after a segment for a SynRecv identity on which check_ack fails, the
\* table still holds the SynRecv entry of that identity, with the same snd and
\* rcv as before the segment.
C1_FailedAckKeepsSynRecv ==
    last.outcome = "check_ack_err" =>
        /\ LastId \in DOMAIN connections
        /\ connections[LastId] = unwrap(last.pre)

\* C2: Established is terminal: whatever segment comes next, an Established
\* entry stays in the table, unchanged.
C2_EstablishedIsTerminal ==
    [][ \A id \in DOMAIN connections :
          connections[id].tag = EstablishedTag =>
              /\ id \in DOMAIN connections'
              /\ connections'[id] = connections[id] ]_vars

\* C3: the loop stops only when the interface read or write fails, never
\* because of what a frame holds.
C3_StopsOnlyOnInterfaceFailure ==
    ~running => last.outcome \in { "recv_err", "send_err" }

\* C4: a SynRecv identity that got one segment failing check_ack and then a
\* valid handshake ACK (ACK set, ack = snd.iss+1, seq = rcv.nxt) is Established.
C4_RetryAfterBadSegment ==
    [][ ( /\ last.outcome = "check_ack_err"
          /\ last'.seg # None
          /\ LET conn == unwrap(last.pre).conn
                 buf  == unwrap(last'.seg)
             IN  /\ parse_connection_id(buf).ok
                 /\ buf.id = conn.id
                 /\ buf.tcp.ack
                 /\ buf.tcp.acknowledgment_number = Succ32(conn.state.snd.iss)
                 /\ buf.tcp.sequence_number = conn.state.rcv.nxt )
        => ( /\ unwrap(last'.seg).id \in DOMAIN connections'
             /\ connections'[unwrap(last'.seg).id].tag = EstablishedTag ) ]_vars


\* The latest iteration found no entry for its frame's identity and made one
Created ==
    /\ last.seg # None
    /\ parse_connection_id(LastFrame).ok
    /\ last.pre = None
    /\ LastId \in DOMAIN connections

\* The latest iteration found a SynRecv entry and left an Established one
Relabelled ==
    /\ last.pre # None
    /\ unwrap(last.pre).tag = SynRecvTag
    /\ LastId \in DOMAIN connections
    /\ connections[LastId].tag = EstablishedTag

\* C5: a SYN (no ACK) for an unseen identity makes its entry SynRecv, and the
\* segment that directly follows for the same identity with ACK set,
\* ack = iss+1 and seq = peer_seq+1 (mod 2^32) makes it Established.
C5_FullHandshake ==
    [][ ( /\ last.seg # None
          /\ last'.seg # None
          /\ parse_connection_id(unwrap(last.seg)).ok
          /\ parse_connection_id(unwrap(last'.seg)).ok
          /\ last.pre = None
          /\ unwrap(last.seg).tcp.syn
          /\ ~unwrap(last.seg).tcp.ack
          /\ unwrap(last'.seg).id = unwrap(last.seg).id
          /\ unwrap(last'.seg).tcp.ack
          /\ unwrap(last'.seg).tcp.sequence_number
               = Succ32(unwrap(last.seg).tcp.sequence_number) )
        => LET id == unwrap(last.seg).id IN
           /\ id \in DOMAIN connections
           /\ connections[id].tag = SynRecvTag
           /\ ( unwrap(last'.seg).tcp.acknowledgment_number
                  = Succ32(connections[id].conn.state.snd.iss)
                => /\ id \in DOMAIN connections'
                   /\ connections'[id].tag = EstablishedTag ) ]_vars

\* C5's case: an identity whose SYN had sequence number 2^32-1 and window 0
\* is Established by an ACK with sequence number 0
C5_Witness ==
    /\ Relabelled
    /\ LastFrame.tcp.sequence_number = U32_ZERO
    /\ unwrap(last.pre).conn.state.rcv.irs = U32_MAX
    /\ unwrap(last.pre).conn.state.rcv.wnd = 0

\* C6: the entry made for a SYN with sequence number s and window w is a
\* SynRecv record under the segment's identity with snd.una = iss,
\* snd.nxt = iss+1, snd.wnd = 64240, snd.iss = iss, rcv.nxt = s+1 mod 2^32,
\* rcv.wnd = w and rcv.irs = s.
C6_SynRecvRecord ==
    Created =>
        LET e   == connections[LastId]
            st  == e.conn.state
            s   == LastFrame.tcp.sequence_number
            iss == initial_seq_num
        IN  /\ e.tag = SynRecvTag
            /\ e.conn.id = LastId
            /\ st.snd.una = iss
            /\ st.snd.nxt = Succ32(iss)
            /\ st.snd.wnd = 64240
            /\ st.snd.iss = iss
            /\ st.rcv.nxt = Succ32(s)
            /\ (s = U32_MAX => st.rcv.nxt = U32_ZERO)
            /\ st.rcv.wnd = LastFrame.tcp.window_size
            /\ st.rcv.irs = s

\* C6's case: an entry made for a SYN with sequence number 2^32-1
C6_Witness ==
    /\ Created
    /\ LastFrame.tcp.sequence_number = U32_MAX
    /\ connections[LastId].conn.state.rcv.nxt = U32_ZERO

\* C7: an iteration that makes a SynRecv entry writes exactly one segment,
\* with SEQ = iss, ACK = rcv.nxt, SYN and ACK set, window 64240, and ports and
\* addresses swapped; every other iteration writes nothing.
C7_ReplyEmission ==
    /\ Created =>
         /\ Len(nic) = 1
         /\ LET st == connections[LastId].conn.state
                id == LastFrame.id
            IN  /\ nic[1].tcp.sequence_number = st.snd.iss
                /\ nic[1].tcp.acknowledgment_number = st.rcv.nxt
                /\ nic[1].tcp.syn
                /\ nic[1].tcp.ack
                /\ nic[1].tcp.window_size = 64240
                /\ nic[1].tcp.source_port = id.dst_port
                /\ nic[1].tcp.destination_port = id.src_port
                /\ nic[1].ip.source = id.dst_addr
                /\ nic[1].ip.destination = id.src_addr
    /\ ~Created => nic = << >>

\* C7's case: a reply written to Peer
C7_Witness ==
    /\ Created
    /\ Len(nic) = 1
    /\ nic[1].ip.destination = Peer.src_addr
    /\ nic[1].tcp.destination_port = Peer.src_port

\* The step handles a frame whose identity has no entry
VacantStep ==
    /\ last'.seg # None
    /\ parse_connection_id(unwrap(last'.seg)).ok
    /\ last'.pre = None
    /\ unwrap(last'.seg).id \notin DOMAIN connections

\* C8 as claimed: a frame whose identity has no entry makes one if and only
\* if it has SYN set and ACK clear; otherwise the table is unchanged.
C8_CreatedIffSynNoAck ==
    [][ VacantStep =>
          LET buf == unwrap(last'.seg) IN
          /\ buf.id \in DOMAIN connections' <=> (buf.tcp.syn /\ ~buf.tcp.ack)
          /\ ~(buf.tcp.syn /\ ~buf.tcp.ack) => connections' = connections ]_vars

\* C8 amended: a frame whose identity has no entry makes one if and only if
\* it has SYN set and ACK clear and the reply is written; otherwise the table
\* is unchanged.
C8_CreatedIffSynNoAckAndSent ==
    [][ VacantStep =>
          LET buf == unwrap(last'.seg) IN
          /\ buf.id \in DOMAIN connections'
               <=> (buf.tcp.syn /\ ~buf.tcp.ack /\ last'.outcome # "send_err")
          /\ buf.id \notin DOMAIN connections' => connections' = connections ]_vars

\* C8's case: an ACK-only segment for an identity with no entry, rejected
C8_Witness ==
    /\ last.seg # None
    /\ parse_connection_id(LastFrame).ok
    /\ last.pre = None
    /\ LastFrame.tcp.ack
    /\ ~LastFrame.tcp.syn
    /\ LastId \notin DOMAIN connections

\* C9: the Established record has every field of snd and rcv, and the
\* identity, equal to those of the SynRecv record it replaces.
C9_EstablishOnlyRelabels ==
    Relabelled =>
        LET old == unwrap(last.pre).conn
            new == connections[LastId].conn
        IN  /\ new.id = old.id
            /\ new.id = LastId
            /\ new.state.snd.up  = old.state.snd.up
            /\ new.state.snd.wnd = old.state.snd.wnd
            /\ new.state.snd.una = old.state.snd.una
            /\ new.state.snd.nxt = old.state.snd.nxt
            /\ new.state.snd.wl1 = old.state.snd.wl1
            /\ new.state.snd.wl2 = old.state.snd.wl2
            /\ new.state.snd.iss = old.state.snd.iss
            /\ new.state.rcv.up  = old.state.rcv.up
            /\ new.state.rcv.wnd = old.state.rcv.wnd
            /\ new.state.rcv.nxt = old.state.rcv.nxt
            /\ new.state.rcv.irs = old.state.rcv.irs

\* C9's case: Other's entry goes from SynRecv to Established
C9_Witness ==
    /\ Relabelled
    /\ LastId = Other
    /\ connections[Other].conn.state.rcv.irs = as_u32(100)

\* C10: is_ack_in_window(snd, ack) is true if and only if
\* 1 <= (ack - una) mod 2^32 <= (nxt - una) mod 2^32.
C10_AckInWindowIsModularInterval ==
    (call.fn = "is_ack_in_window" /\ call.ret # None) =>
        ( unwrap(call.ret)
          <=> ( /\ le(U32_ONE, wrapping_sub(call.ack, call.snd.una))
                /\ le(wrapping_sub(call.ack, call.snd.una),
                      wrapping_sub(call.snd.nxt, call.snd.una)) ) )

\* ------------------------------------ is_recv_data_in_window, evaluated

\* Receive windows 0 .. Edge+1 and payloads of 0 .. Edge+1 octets
RecvWnds == 0..(Edge + 1)
Payloads == { None } \cup { Some(n) : n \in 0..(Edge + 1) }

\* A ReceiveSequenceSpace with the given nxt and wnd
ReceiveSequenceSpace(nxt, wnd) ==
    [ nxt |-> nxt, wnd |-> wnd, up |-> FALSE, irs |-> wrapping_sub(nxt, U32_ONE) ]

InitRecv ==
    /\ connections = << >>
    /\ nic = << >>
    /\ effects = << >>
    /\ running = TRUE
    /\ last = Iteration(None, None, "start")
    /\ call \in { [ fn |-> "is_recv_data_in_window",
                    rcv |-> ReceiveSequenceSpace(nxt, wnd),
                    seg |-> TcpHeaderSlice(syn, FALSE, fin, seq, U32_ZERO, 0),
                    data |-> data, ret |-> None ] :
                  nxt \in { U32_ZERO, u32(Half \div 2, 0) }, wnd \in RecvWnds,
                  syn \in BOOLEAN, fin \in BOOLEAN, seq \in Samples,
                  data \in Payloads }

\* The call returns
EvalRecv ==
    /\ call.fn = "is_recv_data_in_window"
    /\ call.ret = None
    /\ call' = [ call EXCEPT
                   !.ret = Some(is_recv_data_in_window(call.rcv, call.seg, call.data)) ]
    /\ UNCHANGED <<connections, nic, running, last, effects>>

SpecRecv == InitRecv /\ [][EvalRecv]_vars

\* ---------------------------------------- is_wrapping_lte_ls, evaluated

InitWrap ==
    /\ connections = << >>
    /\ nic = << >>
    /\ effects = << >>
    /\ running = TRUE
    /\ last = Iteration(None, None, "start")
    /\ call \in { [ fn |-> "is_wrapping_lte_ls", a |-> a, b |-> b, c |-> c,
                    ret |-> None ] :
                  a \in Samples, b \in Samples, c \in Samples }

\* The call returns
EvalWrap ==
    /\ call.fn = "is_wrapping_lte_ls"
    /\ call.ret = None
    /\ call' = [ call EXCEPT !.ret = Some(is_wrapping_lte_ls(call.a, call.b, call.c)) ]
    /\ UNCHANGED <<connections, nic, running, last, effects>>

SpecWrap == InitWrap /\ [][EvalWrap]_vars

\* ----------------------------------------------- the claims, continued

\* The segment length of the call: payload octets, plus one for SYN and for FIN
SegLen ==
    (IF call.data = None THEN 0 ELSE unwrap(call.data))
    + (IF call.seg.syn THEN 1 ELSE 0)
    + (IF call.seg.fin THEN 1 ELSE 0)

\* rcv.nxt <= x < rcv.nxt + rcv.wnd modulo 2^32, for the call's rcv
InRcvWindow(x) == lt(wrapping_sub(x, call.rcv.nxt), as_u32(call.rcv.wnd))

\* C11: with rcv.wnd > 0 a segment of length 0 is accepted if and only if its
\* sequence number is in the window, and a longer one if and only if its first
\* or its last sequence number is, for every payload and every SYN and FIN.
C11_RecvWindowOpen ==
    (call.fn = "is_recv_data_in_window" /\ call.ret # None /\ call.rcv.wnd > 0) =>
        ( unwrap(call.ret)
          <=> IF SegLen = 0
              THEN InRcvWindow(call.seg.sequence_number)
              ELSE \/ InRcvWindow(call.seg.sequence_number)
                   \/ InRcvWindow(wrapping_sub(wrapping_add(call.seg.sequence_number,
                                                            as_u32(SegLen)),
                                               U32_ONE)) )

\* C12: with rcv.wnd = 0 a segment is accepted if and only if it has length 0
\* and its sequence number is rcv.nxt.
C12_RecvWindowClosed ==
    (call.fn = "is_recv_data_in_window" /\ call.ret # None /\ call.rcv.wnd = 0) =>
        ( unwrap(call.ret)
          <=> (SegLen = 0 /\ call.seg.sequence_number = call.rcv.nxt) )

\* 2^31
U32_HALFWAY == u32(Half \div 2, 0)

\* C13: is_wrapping_lte_ls(a, b, c) is true if and only if
\* (b - a) mod 2^32 < (c - a) mod 2^32; so it is true for (a, a+1, a+k+1) with
\* 1 <= k <= 2^31, and for (a, a, c) exactly when a # c.
C13_WrappingOrder ==
    (call.fn = "is_wrapping_lte_ls" /\ call.ret # None) =>
        /\ unwrap(call.ret)
             <=> lt(wrapping_sub(call.b, call.a), wrapping_sub(call.c, call.a))
        /\ ( /\ call.b = Succ32(call.a)
             /\ le(U32_ONE, wrapping_sub(call.c, call.b))
             /\ le(wrapping_sub(call.c, call.b), U32_HALFWAY) )
           => unwrap(call.ret)
        /\ call.b = call.a => (unwrap(call.ret) <=> call.a # call.c)

\* C13's case: (2^32-1, 0, 2^31), that is a, a+1, a+k+1 with k = 2^31, is ordered
C13_Witness ==
    /\ call.fn = "is_wrapping_lte_ls"
    /\ call.a = U32_MAX
    /\ call.b = U32_ZERO
    /\ call.c = U32_HALFWAY
    /\ call.ret = Some(TRUE)

\* The frame fails header extraction
FailsExtraction(buf) == ~buf.ipv4_ok \/ buf.protocol # 6 \/ ~buf.tcp_ok

\* C14: a frame that fails header extraction is skipped: no table lookup, the
\* table unchanged, nothing written, and the loop goes on.
C14_BadFrameSkipped ==
    [][ (last'.seg # None /\ FailsExtraction(unwrap(last'.seg))) =>
          /\ connections' = connections
          /\ nic' = << >>
          /\ effects' = << >>
          /\ last'.pre = None
          /\ running' ]_vars

\* C14's case: a UDP datagram was read while Other's handshake was under way
C14_Witness ==
    /\ last.seg # None
    /\ LastFrame.protocol = 17
    /\ running
    /\ Other \in DOMAIN connections

\* The three tests of check_ack on header h against the stored state st
PassesCheckAck(st, h) ==
    /\ h.ack
    /\ is_ack_in_window(st.snd, h.acknowledgment_number)
    /\ is_recv_data_in_window(st.rcv, h, None)

\* C15: an entry becomes Established only in a step whose segment, for that
\* identity, has ACK set, an acknowledgment number in the stored send window
\* and a sequence number in the stored receive window; a segment for a SynRecv
\* identity that fails one of the three gets an error and no Established entry.
C15_EstablishedOnlyByValidAck ==
    [][ /\ \A id \in Ids :
             ( /\ id \in DOMAIN connections'
               /\ connections'[id].tag = EstablishedTag
               /\ ~(id \in DOMAIN connections /\ connections[id].tag = EstablishedTag) )
             => /\ last'.seg # None
                /\ unwrap(last'.seg).id = id
                /\ id \in DOMAIN connections
                /\ connections[id].tag = SynRecvTag
                /\ PassesCheckAck(connections[id].conn.state, unwrap(last'.seg).tcp)
        /\ ( /\ last'.seg # None
             /\ parse_connection_id(unwrap(last'.seg)).ok
             /\ unwrap(last'.seg).id \in DOMAIN connections
             /\ last'.pre = Some(connections[unwrap(last'.seg).id])
             /\ connections[unwrap(last'.seg).id].tag = SynRecvTag
             /\ ~PassesCheckAck(connections[unwrap(last'.seg).id].conn.state,
                                unwrap(last'.seg).tcp) )
           => /\ last'.outcome = "check_ack_err"
              /\ ~( /\ unwrap(last'.seg).id \in DOMAIN connections'
                    /\ connections'[unwrap(last'.seg).id].tag = EstablishedTag ) ]_vars

\* C15's case: Peer is Established by a segment that has SYN and ACK set
C15_Witness ==
    /\ Relabelled
    /\ LastId = Peer
    /\ LastFrame.tcp.syn
    /\ LastFrame.tcp.ack

\* C16: every entry has (snd.nxt - snd.una) mod 2^32 < 2^31, and an entry
\* that stays in the table keeps its snd.iss.
C16_UnaNxtIss ==
    [][ /\ \A id \in DOMAIN connections' :
             lt(wrapping_sub(connections'[id].conn.state.snd.nxt,
                             connections'[id].conn.state.snd.una), U32_HALFWAY)
        /\ \A id \in DOMAIN connections \cap DOMAIN connections' :
             connections'[id].conn.state.snd.iss = connections[id].conn.state.snd.iss
      ]_vars

\* C16's case: Peer's entry, made for a SYN with window 500, is Established
C16_Witness ==
    /\ Relabelled
    /\ LastId = Peer
    /\ connections[Peer].conn.state.rcv.wnd = 500
    /\ connections[Peer].conn.state.snd.iss = unwrap(last.pre).conn.state.snd.iss

\* C17: every SynRecv entry has snd.iss = 0, snd.una = 0 and snd.nxt = 1, the
\* only acknowledgment number in its send window is 1, and the segment that
\* made an entry Established acknowledged 1.
C17_IssIsZero ==
    /\ \A id \in DOMAIN connections :
         connections[id].tag = SynRecvTag =>
             LET snd == connections[id].conn.state.snd IN
             /\ snd.iss = <<0, 0>>
             /\ snd.una = <<0, 0>>
             /\ snd.nxt = <<0, 1>>
             /\ \A a \in Samples \cup AckVals :
                    is_ack_in_window(snd, a) <=> a = <<0, 1>>
    /\ Relabelled => LastFrame.tcp.acknowledgment_number = <<0, 1>>

\* C17's case: an ACK with the right sequence number that acknowledges 2 is rejected
C17_Witness ==
    /\ last.outcome = "check_ack_err"
    /\ LastFrame.tcp.ack
    /\ LastFrame.tcp.acknowledgment_number = as_u32(2)
    /\ LastFrame.tcp.sequence_number = unwrap(last.pre).conn.state.rcv.nxt

\* C18: a frame of identity X leaves the entry of every other identity as it
\* was: present or absent, with the same state, snd and rcv.
C18_OtherIdentitiesUntouched ==
    [][ (last'.seg # None /\ parse_connection_id(unwrap(last'.seg)).ok) =>
          \A y \in Ids \ { unwrap(last'.seg).id } :
              /\ y \in DOMAIN connections' <=> y \in DOMAIN connections
              /\ y \in DOMAIN connections => connections'[y] = connections[y] ]_vars

\* C18's case: Peer's entry was removed while Other's stays Established
C18_Witness ==
    /\ last.seg # None
    /\ LastId = Peer
    /\ last.pre # None
    /\ Peer \notin DOMAIN connections
    /\ Other \in DOMAIN connections
    /\ connections[Other].tag = EstablishedTag

\* C19: the table holds only SynRecv and Established entries, an absent
\* identity can only become SynRecv, and an identity becomes Established only
\* from SynRecv.
C19_TableStates ==
    [][ \A id \in DOMAIN connections' :
          /\ connections'[id].tag \in { "SynRecv", "Established" }
          /\ id \notin DOMAIN connections => connections'[id].tag = "SynRecv"
          /\ ( /\ connections'[id].tag = "Established"
               /\ id \in DOMAIN connections
               /\ connections[id].tag # "Established" )
             => connections[id].tag = "SynRecv" ]_vars

\* C19's case: Other enters the table as SynRecv while Peer is Established
C19_Witness ==
    /\ Created
    /\ LastId = Other
    /\ connections[Other].tag = "SynRecv"
    /\ Peer \in DOMAIN connections
    /\ connections[Peer].tag = "Established"

\* C20: an iteration that inserts a SynRecv entry has written one segment
\* before the insertion; when the write of the SYN-ACK fails, no entry is
\* inserted and main returns.
C20_SendBeforeInsert ==
    /\ Created =>
         /\ Len(nic) = 1
         /\ Cardinality({ i \in DOMAIN effects : effects[i] = "send" }) = 1
         /\ \E i, j \in DOMAIN effects :
                i < j /\ effects[i] = "send" /\ effects[j] = "insert"
    /\ ( /\ last.seg # None
         /\ parse_connection_id(LastFrame).ok
         /\ last.pre = None
         /\ LastFrame.tcp.syn
         /\ ~LastFrame.tcp.ack
         /\ nic = << >> )
       => /\ LastId \notin DOMAIN connections
          /\ ~running
          /\ "insert" \notin { effects[i] : i \in DOMAIN effects }

\* C20's case: the write of the SYN-ACK failed
C20_Witness ==
    /\ last.outcome = "send_err"
    /\ ~running
    /\ LastId \notin DOMAIN connections
    /\ effects = <<"entry">>

====
